---- MODULE Spec2Model ----
(***************************************************************************)
(* A model of ims_common: the AuthenticationConfig validator (config.py)   *)
(* and the JWT middleware built by create_jwt_middleware                    *)
(* (jwt_middleware.py).  Tokens, keys and headers are abstracted to the    *)
(* attributes the code and the libraries it calls (PyJWT's jwt.decode,     *)
(* FastAPI's HTTPBearer) branch on.                                        *)
(***************************************************************************)
EXTENDS Integers, Sequences, FiniteSets, TLC

\* ---------------------------------------------------------------- bounds
\* The clock runs over 0..MaxTime.
MaxTime == 1
\* Number of requests the middleware instance receives.
NumReq == 1
\* Number of requests one middleware instance handles at the same time.
NumConc == 2

\* ------------------------------------------------------------ vocabulary
\* Python's None, and a keyword argument / JSON claim that is not given.
None == "None"
Absent == "absent"
\* JSON null as a claim value.
JsonNull == "null"

\* Contents a key file can have: two PEM public keys and a plain text secret.
PemKeys == {"PEM1", "PEM2"}
KeyContents == PemKeys \cup {"secret"}
NoKey == "nokey"

\* Algorithm names PyJWT knows (the ones the model uses).
SupportedAlgs == {"RS256", "HS256", "none"}

\* ------------------------------------------------------------ tokens
\* A claim that holds a time is an integer; -1 stands for the claim not
\* being in the payload.  MaxTime + 1 is a time the clock never reaches.
NoTime == -1
TimeClaims == {NoTime} \cup (1..(MaxTime + 1))

ClaimSets == [username : {Absent, JsonNull, "alice"},
              exp      : TimeClaims,
              nbf      : TimeClaims,
              aud      : {Absent, "svc"}]

NoClaims == [username |-> Absent, exp |-> NoTime, nbf |-> NoTime, aud |-> Absent]

\* A token string.  form "jws" is three well-formed base64url segments with a
\* JSON-object header and payload; the other forms are strings jwt.decode
\* cannot split or parse.  signer is the key the signature was made for
\* ("bad" for a signature made for no key of the model).
MalformedForms == {"empty", "garbage", "truncated"}

MalformedTokens == [form : MalformedForms, alg : {"none"}, signer : {"bad"},
                    claims : {NoClaims}]

JwsTokens == [form : {"jws"}, alg : SupportedAlgs,
              signer : KeyContents \cup {"bad"}, claims : ClaimSets]

Tokens == MalformedTokens \cup JwsTokens

EmptyToken == [form |-> "empty", alg |-> "none", signer |-> "bad", claims |-> NoClaims]

VARIABLES
    auth_config,   \* the AuthenticationConfig object (or the failed construction)
    keyfile,       \* what is at the path "pub.key" on disk
    PUBLIC_KEY,    \* the constant create_jwt_middleware reads the key file into
    middleware,    \* outcome of create_jwt_middleware
    bearer_status, \* status code HTTPBearer raises "Not authenticated" with
    now,           \* the clock jwt.decode compares exp and nbf with
    req,           \* the requests dispatch is handling
    vtoken,        \* verifier harness: the token given to the Verifier
    vout           \* verifier harness: what the Verifier call produced

vars == <<auth_config, keyfile, PUBLIC_KEY, middleware, bearer_status, now, req,
          vtoken, vout>>

\* ------------------------------------------------------------ jwt.decode
NoExc == "no exception"

Raise(e) == [raised |-> TRUE, exc |-> e, payload |-> NoClaims]
Return(p) == [raised |-> FALSE, exc |-> NoExc, payload |-> p]

\* The signature check of the algorithm object: RS256 needs a PEM public key
\* and a signature made by its private key; HS256 refuses a PEM key as a
\* secret; "none" never verifies against a key.
SignatureError(token, key) ==
    CASE token.alg = "RS256" ->
            IF key \notin PemKeys THEN "InvalidKeyError"
            ELSE IF token.signer # key THEN "InvalidSignatureError" ELSE NoExc
      [] token.alg = "HS256" ->
            IF key \in PemKeys THEN "InvalidKeyError"
            ELSE IF token.signer # key THEN "InvalidSignatureError" ELSE NoExc
      [] OTHER -> "InvalidKeyError"

\* Registered-claim validation with no audience given and no leeway.
ClaimsError(claims, t) ==
    IF claims.nbf # NoTime /\ claims.nbf > t THEN "ImmatureSignatureError"
    ELSE IF claims.exp # NoTime /\ claims.exp <= t THEN "ExpiredSignatureError"
    ELSE IF claims.aud # Absent THEN "InvalidAudienceError"
    ELSE NoExc

\* jwt.decode(token, key, algorithms=algorithms) at time t.
jwt_decode(token, key, algorithms, t) ==
    IF token.form # "jws" THEN Raise("DecodeError")
    ELSE IF token.alg \notin algorithms THEN Raise("InvalidAlgorithmError")
    ELSE IF SignatureError(token, key) # NoExc THEN Raise(SignatureError(token, key))
    ELSE IF ClaimsError(token.claims, t) # NoExc THEN Raise(ClaimsError(token.claims, t))
    ELSE Return(token.claims)

\* ------------------------------------------------------------ the Verifier
\* A handler that catches the expiry error only.
ExceptExpiredOnly(exc) == exc = "ExpiredSignatureError"

\* `except Exception`: every exception jwt.decode raises is caught.
ExceptException(exc) == TRUE

\* The payload test left out.
HasUsernameSkipped(payload) == TRUE

\* `"username" in payload`
HasUsername(payload) == payload.username # Absent

\* The key and the algorithm list a call of the Verifier hands to jwt.decode:
\* the constant PUBLIC_KEY of the closure, and the jwt_algorithm attribute read
\* from the auth_config object at the time of the call.
VerifierKey == PUBLIC_KEY
VerifierAlgorithms == {auth_config.jwt_algorithm}

\* The algorithm list taken from the token's own header.
is_jwt_access_token_valid_header_alg(access_token) ==
    LET d == jwt_decode(access_token, PUBLIC_KEY, {access_token.alg}, now)
    IN  [raised |-> FALSE, exc |-> NoExc,
         value |-> (~d.raised) /\ HasUsername(d.payload)]

\* A Verifier that remembers the tokens it has seen and refuses a replay.
is_jwt_access_token_valid_single_use(access_token) ==
    LET d == jwt_decode(access_token, PUBLIC_KEY, {auth_config.jwt_algorithm}, now)
    IN  [raised |-> FALSE, exc |-> NoExc,
         value |-> /\ ~d.raised
                   /\ HasUsername(d.payload)
                   /\ ~(vout.called /\ access_token = vtoken)]

\* JWTMiddleware._is_jwt_access_token_valid: the value returned, or the
\* exception that leaves it.
is_jwt_access_token_valid(access_token) ==
    LET d == jwt_decode(access_token, VerifierKey, VerifierAlgorithms, now)
    IN  IF d.raised /\ ~ExceptException(d.exc)
        THEN [raised |-> TRUE, exc |-> d.exc, value |-> FALSE]
        ELSE [raised |-> FALSE, exc |-> NoExc,
              value |-> (~d.raised) /\ HasUsername(d.payload)]

\* ------------------------------------------------------------ config.py
\* What a caller can pass for the fields of AuthenticationConfig.
EnabledInputs == {"True", "False", Absent}
PathInputs == {Absent, None, "", "pub.key"}
AlgInputs == {Absent, None, "", "RS256"}

\* info.data while public_key_path and jwt_algorithm are validated: the fields
\* validated so far.  enabled is in it only when it was given and is a bool.
InfoData(enabled_in) ==
    [has_enabled |-> enabled_in # Absent, enabled |-> enabled_in = "True"]

\* AuthenticationConfig.validate_optional_fields: TRUE when it raises
\* ValueError("Field required"); otherwise it returns field_value.
validate_optional_fields(field_value, data) ==
    (data.has_enabled /\ data.enabled = TRUE) /\ field_value = None

\* A field that is not given takes its default, None, and is still validated
\* (validate_default=True).
FieldValue(field_in) == IF field_in = Absent THEN None ELSE field_in

Unset == [status |-> "unset", enabled |-> FALSE,
          public_key_path |-> None, jwt_algorithm |-> None]

\* AuthenticationConfig(enabled=..., public_key_path=..., jwt_algorithm=...)
AuthenticationConfig(enabled_in, path_in, alg_in) ==
    LET data == InfoData(enabled_in)
        failed == \/ enabled_in = Absent
                  \/ validate_optional_fields(FieldValue(path_in), data)
                  \/ validate_optional_fields(FieldValue(alg_in), data)
    IN  IF failed
        THEN [Unset EXCEPT !.status = "ValidationError"]
        ELSE [status |-> "ok", enabled |-> data.enabled,
              public_key_path |-> FieldValue(path_in),
              jwt_algorithm |-> FieldValue(alg_in)]

\* ------------------------------------------------------------ the key file
KeyFileStates == {"missing", "unreadable", "PEM1", "secret"}

\* open(path, "r").read(): the exception raised, or the content read.
OpenRead(path) ==
    IF path = None THEN [exc |-> "TypeError", content |-> NoKey]
    ELSE IF path = "" THEN [exc |-> "FileNotFoundError", content |-> NoKey]
    ELSE IF keyfile = "missing" THEN [exc |-> "FileNotFoundError", content |-> NoKey]
    ELSE IF keyfile = "unreadable" THEN [exc |-> "PermissionError", content |-> NoKey]
    ELSE [exc |-> NoExc, content |-> keyfile]

\* A handler that logs the missing key file and carries on.
CreateOutcomeCarryOn(exc) ==
    IF exc \in {NoExc, "FileNotFoundError"} THEN "returned" ELSE "raised"

\* `except FileNotFoundError` -> sys.exit(...); any other exception leaves
\* create_jwt_middleware as it is.
CreateOutcome(exc) ==
    IF exc = NoExc THEN "returned"
    ELSE IF exc = "FileNotFoundError" THEN "SystemExit"
    ELSE "raised"

\* ------------------------------------------------------------ requests
Reqs == 1..NumReq

ExemptPaths == {"/docs", "/openapi.json"}
Paths == ExemptPaths \cup {"/data", "/docs/", "/docs/oauth2-redirect"}

\* The tokens that requests of the gate carry.
GoodClaims == [NoClaims EXCEPT !.username = "alice", !.exp = 1]
GateTokens ==
    { EmptyToken,
      [EmptyToken EXCEPT !.form = "garbage"],
      [form |-> "jws", alg |-> "RS256", signer |-> "PEM1", claims |-> GoodClaims],
      [form |-> "jws", alg |-> "RS256", signer |-> "PEM2", claims |-> GoodClaims],
      [form |-> "jws", alg |-> "RS256", signer |-> "PEM1",
       claims |-> [NoClaims EXCEPT !.username = JsonNull]],
      [form |-> "jws", alg |-> "RS256", signer |-> "PEM1", claims |-> NoClaims] }

\* The Authorization header: not sent, or "<scheme> <param>".
NoHeader == [present |-> FALSE, scheme |-> "", param |-> EmptyToken]
Headers == {NoHeader} \cup
           [present : {TRUE}, scheme : {"Bearer", "bearer", "Basic"}, param : GateTokens]

HTTP_403_FORBIDDEN == 403

NoResponse == [status_code |-> 0, detail |-> "", by |-> "nobody"]

\* JSONResponse(status_code=..., content={"detail": ...})
JSONResponse(status_code, detail) ==
    [status_code |-> status_code, detail |-> detail, by |-> "JSONResponse"]

\* What the downstream application can answer; it can also raise.
HandlerResponses == { [status_code |-> 200, detail |-> "items", by |-> "call_next"],
                      [status_code |-> 404, detail |-> "Not Found", by |-> "call_next"] }
HandlerOutcomes == HandlerResponses \cup {NoResponse}

Lower(scheme) == IF scheme = "Bearer" THEN "bearer" ELSE scheme

\* security = HTTPBearer(auto_error=True); await security(request).
\* FastAPI answers a missing credential with 403 (older releases) or 401, and
\* a scheme other than bearer with "Invalid authentication credentials"
\* (older releases) or the same "Not authenticated".
security(header) ==
    IF ~(header.present /\ header.scheme # "" /\ header.param.form # "empty")
    THEN [raised |-> TRUE, status_code |-> bearer_status,
          detail |-> "Not authenticated", credentials |-> EmptyToken]
    ELSE IF Lower(header.scheme) # "bearer"
    THEN [raised |-> TRUE, status_code |-> bearer_status,
          detail |-> IF bearer_status = 403
                     THEN "Invalid authentication credentials"
                     ELSE "Not authenticated",
          credentials |-> EmptyToken]
    ELSE [raised |-> FALSE, status_code |-> 0, detail |-> "",
          credentials |-> header.param]

\* A request dispatch has not been called for yet.  `at` keeps the time at
\* which the request's token is given to the Verifier.
IdleReq == [pc |-> "idle", path |-> "/data", header |-> NoHeader,
            at |-> 0, credentials |-> EmptyToken, verdict |-> "none",
            trace |-> <<>>, forwarded |-> [path |-> "", header |-> NoHeader],
            handler |-> NoResponse,
            outcome |-> "none", response |-> NoResponse]

\* `again` is a second call with the same token.
NotCalled == [called |-> FALSE, raised |-> FALSE, exc |-> NoExc, value |-> FALSE,
              at |-> 0,
              again |-> [called |-> FALSE, value |-> FALSE, at |-> 0]]

\* ------------------------------------------------------------ actions
Init ==
    /\ auth_config = Unset
    /\ keyfile \in KeyFileStates
    /\ PUBLIC_KEY = NoKey
    /\ middleware = "none"
    /\ bearer_status \in {401, 403}
    /\ now = 0
    /\ req = [r \in Reqs |-> IdleReq]
    /\ vtoken = EmptyToken
    /\ vout = NotCalled

\* The service builds its AuthenticationConfig.
Configure ==
    /\ auth_config.status = "unset"
    /\ \E e \in EnabledInputs, p \in PathInputs, a \in AlgInputs :
           auth_config' = AuthenticationConfig(e, p, a)
    /\ UNCHANGED <<keyfile, PUBLIC_KEY, middleware, bearer_status, now, req, vtoken, vout>>

\* create_jwt_middleware(auth_config)
create_jwt_middleware ==
    /\ auth_config.status = "ok"
    /\ middleware = "none"
    /\ LET f == OpenRead(auth_config.public_key_path)
       IN  /\ middleware' = CreateOutcome(f.exc)
           /\ PUBLIC_KEY' = IF CreateOutcome(f.exc) = "returned" THEN f.content ELSE NoKey
    /\ UNCHANGED <<auth_config, keyfile, bearer_status, now, req, vtoken, vout>>

\* Time passes.
Tick ==
    /\ now < MaxTime
    /\ now' = now + 1
    /\ UNCHANGED <<auth_config, keyfile, PUBLIC_KEY, middleware, bearer_status, req,
                   vtoken, vout>>

\* A prefix test in place of the membership test.
IsExemptPrefix(path) ==
    path \in {"/docs", "/docs/", "/docs/oauth2-redirect", "/openapi.json"}

\* Only the first of the two paths.
IsExemptDocsOnly(path) == path = "/docs"

\* Is the path one of the two the middleware lets through?
IsExempt(path) == path \in {"/docs", "/openapi.json"}

\* dispatch reaches `await call_next(request)`: the handler is invoked with the
\* request.
InvokeCallNext(q) ==
    [q EXCEPT !.pc = "call_next", !.trace = Append(@, "call_next"),
              !.outcome = "Allow",
              !.forwarded = [path |-> q.path, header |-> q.header]]

\* The test on the verdict without its `not`.
DispatchVerifyInverted(q) ==
    LET v == is_jwt_access_token_valid(q.credentials)
        t == Append(q.trace, "verify")
    IN  IF v.raised
        THEN [q EXCEPT !.pc = "done", !.trace = t, !.verdict = "raised",
                       !.outcome = "Exception"]
        ELSE IF v.value
        THEN [q EXCEPT !.pc = "done", !.trace = t, !.verdict = "True",
                       !.outcome = "Reject",
                       !.response = JSONResponse(HTTP_403_FORBIDDEN,
                                                 "Invalid token or expired token")]
        ELSE InvokeCallNext([q EXCEPT !.trace = t, !.verdict = "False"])

\* A verdict kept on the middleware instance: once a request has been
\* verified, later requests are let through on it.
DispatchVerifyShared(q) ==
    LET v == is_jwt_access_token_valid(q.credentials)
        t == Append(q.trace, "verify")
        kept == \E r \in DOMAIN req : req[r].verdict = "True"
    IN  IF ~(v.value \/ kept)
        THEN [q EXCEPT !.pc = "done", !.trace = t, !.verdict = "False",
                       !.outcome = "Reject",
                       !.response = JSONResponse(HTTP_403_FORBIDDEN,
                                                 "Invalid token or expired token")]
        ELSE InvokeCallNext([q EXCEPT !.trace = t, !.verdict = "True"])

\* dispatch, `if not self._is_jwt_access_token_valid(credentials.credentials)`:
\* the 403 response, or on to call_next.
DispatchVerify(q) ==
    LET v == is_jwt_access_token_valid(q.credentials)
        t == Append(q.trace, "verify")
    IN  IF v.raised
        THEN [q EXCEPT !.pc = "done", !.trace = t, !.verdict = "raised",
                       !.outcome = "Exception"]
        ELSE IF ~v.value
        THEN [q EXCEPT !.pc = "done", !.trace = t, !.verdict = "False",
                       !.outcome = "Reject",
                       !.response = JSONResponse(HTTP_403_FORBIDDEN,
                                                 "Invalid token or expired token")]
        ELSE InvokeCallNext([q EXCEPT !.trace = t, !.verdict = "True"])

\* A handler that lets the 403 of HTTPBearer through.
ExceptUnauthorizedOnly(s) == s.raised /\ s.status_code = 401

\* `except HTTPException as exc`: the exceptions of security(request) that
\* dispatch turns into a response.
ExceptHTTPException(s) == s.raised

\* The extraction error answered with the fixed 403 of the verdict.
DispatchExtractFixedStatus(q) ==
    LET s == security(q.header)
        t == Append(q.trace, "security")
    IN  IF s.raised
        THEN [q EXCEPT !.pc = "done", !.trace = t, !.outcome = "Reject",
                       !.response = JSONResponse(HTTP_403_FORBIDDEN,
                                                 "Invalid token or expired token")]
        ELSE DispatchVerify([q EXCEPT !.trace = t, !.credentials = s.credentials,
                                      !.at = now])

\* dispatch from `credentials = await security(request)` on.
DispatchExtract(q) ==
    LET s == security(q.header)
        t == Append(q.trace, "security")
    IN  IF ExceptHTTPException(s)
        THEN [q EXCEPT !.pc = "done", !.trace = t, !.outcome = "Reject",
                       !.response = JSONResponse(s.status_code, s.detail)]
        ELSE IF s.raised
        THEN [q EXCEPT !.pc = "done", !.trace = t, !.outcome = "Exception"]
        ELSE DispatchVerify([q EXCEPT !.trace = t, !.credentials = s.credentials,
                                      !.at = now])

\* The credential extracted before the path is looked at.
dispatch_security_first(q) ==
    LET s == security(q.header)
        t == [q EXCEPT !.trace = <<"security", "path_check">>]
    IN  IF IsExempt(q.path) THEN InvokeCallNext(t)
        ELSE IF s.raised
        THEN [t EXCEPT !.pc = "done", !.outcome = "Reject",
                       !.response = JSONResponse(s.status_code, s.detail)]
        ELSE DispatchVerify([t EXCEPT !.credentials = s.credentials, !.at = now])

\* Authentication done only when the configuration enables it.
dispatch_if_enabled(q) ==
    LET t == [q EXCEPT !.trace = Append(@, "path_check")]
    IN  IF auth_config.enabled /\ ~IsExempt(q.path)
        THEN DispatchExtract(t)
        ELSE InvokeCallNext(t)

\* JWTMiddleware.dispatch(request, call_next), up to its return of a rejection
\* or its await of call_next.  None of the calls before call_next suspends.
dispatch(q) ==
    LET t == [q EXCEPT !.trace = Append(@, "path_check")]
    IN  IF ~IsExempt(q.path) THEN DispatchExtract(t) ELSE InvokeCallNext(t)

\* The server calls dispatch(request, call_next) on the middleware instance.
\* Requests are numbered in the order they arrive.
Dispatch(r) ==
    /\ middleware = "returned"
    /\ req[r].pc = "idle"
    /\ \A q \in Reqs : q < r => req[q].pc # "idle"
    /\ \E p \in Paths, h \in Headers :
           req' = [req EXCEPT ![r] = dispatch([@ EXCEPT !.path = p, !.header = h])]
    /\ UNCHANGED <<auth_config, keyfile, PUBLIC_KEY, middleware, bearer_status, now,
                   vtoken, vout>>

\* The handler's answer wrapped in a new response.
CallNextReturnWrapped(q, h) ==
    [q EXCEPT !.pc = "done", !.handler = h,
              !.response = JSONResponse(h.status_code, h.detail)]

\* `return await call_next(request)`: the downstream handler answers h and
\* dispatch returns it, or the handler raises (h = NoResponse) and so does
\* dispatch.
CallNextReturn(q, h) ==
    [q EXCEPT !.pc = "done", !.handler = h, !.response = h]

CallNext(r) ==
    /\ req[r].pc = "call_next"
    /\ \E h \in HandlerOutcomes : req' = [req EXCEPT ![r] = CallNextReturn(@, h)]
    /\ UNCHANGED <<auth_config, keyfile, PUBLIC_KEY, middleware, bearer_status, now,
                   vtoken, vout>>

Next ==
    \/ Configure
    \/ create_jwt_middleware
    \/ Tick
    \/ \E r \in Reqs : Dispatch(r)
    \/ \E r \in Reqs : CallNext(r)

Spec == Init /\ [][Next]_vars

\* ------------------------------------------------------------ the Verifier alone
\* A middleware instance, already built, whose _is_jwt_access_token_valid is
\* called with any token of Tokens, under any configuration the validator
\* accepts and any key the file can hold.
VerifierAlgInputs == {Absent, None, "", "RS256", "HS256", "none"}

VerifierConfigs ==
    { c \in { AuthenticationConfig(e, "pub.key", a) :
                  e \in EnabledInputs, a \in VerifierAlgInputs } : c.status = "ok" }

InitVerifier ==
    /\ auth_config \in VerifierConfigs
    /\ keyfile \in KeyContents
    /\ PUBLIC_KEY = keyfile
    /\ middleware = "returned"
    /\ bearer_status = 403
    /\ now \in 0..MaxTime
    /\ req = [r \in Reqs |-> IdleReq]
    /\ vtoken \in Tokens
    /\ vout = NotCalled

\* self._is_jwt_access_token_valid(vtoken); `at` keeps the time of the call.
VerifierCall ==
    /\ ~vout.called
    /\ LET v == is_jwt_access_token_valid(vtoken)
       IN  vout' = [called |-> TRUE, raised |-> v.raised, exc |-> v.exc,
                    value |-> v.value, at |-> now, again |-> vout.again]
    /\ UNCHANGED <<auth_config, keyfile, PUBLIC_KEY, middleware, bearer_status, now,
                   req, vtoken>>

NextVerifier == VerifierCall \/ Tick

SpecVerifier == InitVerifier /\ [][NextVerifier]_vars

\* ------------------------------------------------------------ properties
Count(seq, x) == Cardinality({i \in DOMAIN seq : seq[i] = x})

Handled(r) == req[r].pc # "idle"

\* The Authorization header carries a bearer credential.
BearerCredential(h) ==
    h.present /\ h.scheme \in {"Bearer", "bearer"} /\ h.param.form # "empty"

\* The conditions of the Verifier's contract, for token tok at time t.
SignatureVerifies(tok) ==
    /\ tok.form = "jws"
    /\ tok.signer = PUBLIC_KEY
    /\ \/ tok.alg = "RS256" /\ PUBLIC_KEY \in PemKeys
       \/ tok.alg = "HS256" /\ PUBLIC_KEY \notin PemKeys
NotExpired(tok, t) == tok.claims.exp = NoTime \/ tok.claims.exp > t
AlgorithmMatches(tok) == tok.form = "jws" /\ tok.alg = auth_config.jwt_algorithm
IdentityPresent(tok) == tok.claims.username # Absent
NotBeforeReached(tok, t) == tok.claims.nbf = NoTime \/ tok.claims.nbf <= t
NoAudience(tok) == tok.claims.aud = Absent

\* The causes of invalidity the rejection does not tell apart.
InvalidCause(tok, t) ==
    \/ tok.form # "jws"
    \/ ~SignatureVerifies(tok)
    \/ ~NotExpired(tok, t)
    \/ ~AlgorithmMatches(tok)
    \/ ~IdentityPresent(tok)

Forbidden ==
    [status_code |-> 403, detail |-> "Invalid token or expired token",
     by |-> "JSONResponse"]

C3_ExtractionErrorAnswered ==
    \A r \in Reqs :
        (Handled(r) /\ ~(req[r].path \in ExemptPaths)
                    /\ ~BearerCredential(req[r].header))
        => /\ req[r].pc = "done"
           /\ req[r].response.by = "JSONResponse"
           /\ req[r].response.status_code = security(req[r].header).status_code
           /\ req[r].response.status_code \in {401, 403}
           /\ req[r].response.detail = security(req[r].header).detail
           /\ req[r].response.detail \in {"Not authenticated",
                                          "Invalid authentication credentials"}
           /\ Count(req[r].trace, "verify") = 0
           /\ Count(req[r].trace, "call_next") = 0

\* A request with a Basic credential was answered with the extraction error.
C3_Witness ==
    \E r \in Reqs :
        /\ req[r].pc = "done"
        /\ req[r].path = "/data"
        /\ req[r].header.scheme = "Basic"
        /\ req[r].response.detail # "Invalid token or expired token"
        /\ req[r].outcome = "Reject"

\* C4: a request to "/docs" or "/openapi.json" goes to call_next with no
\* authentication step, whatever its Authorization header, and dispatch
\* returns what the handler returned.
C4_ExemptPathBypasses ==
    \A r \in Reqs :
        (Handled(r) /\ req[r].path \in ExemptPaths)
        => /\ req[r].trace = <<"path_check", "call_next">>
           /\ req[r].verdict = "none"
           /\ req[r].outcome = "Allow"
           /\ req[r].forwarded = [path |-> req[r].path, header |-> req[r].header]
           /\ req[r].pc = "done" => req[r].response = req[r].handler

\* "/openapi.json" was served although the header carried a garbage token.
C4_Witness ==
    \E r \in Reqs :
        /\ req[r].pc = "done"
        /\ req[r].path = "/openapi.json"
        /\ req[r].header.present
        /\ req[r].header.param.form = "garbage"
        /\ req[r].response \in HandlerResponses

C9_EnabledNeedsKeyAndAlgorithm ==
    (auth_config.status = "ok" /\ auth_config.enabled)
    => /\ auth_config.public_key_path \notin {None, ""}
       /\ auth_config.jwt_algorithm \notin {None, ""}

\* The key source create_jwt_middleware is given can be read.
KeySourceAvailable ==
    /\ auth_config.public_key_path = "pub.key"
    /\ keyfile \in KeyContents

\* C10: when create_jwt_middleware runs and the key source is missing,
\* unreadable or not configured, it ends in SystemExit or an exception and
\* returns no middleware class; and a request is only ever handled by a
\* middleware that has loaded a key.
C10_NoGateWithoutKey ==
    /\ [][ (middleware = "none" /\ middleware' # "none" /\ ~KeySourceAvailable)
           => (middleware' \in {"SystemExit", "raised"} /\ PUBLIC_KEY' = NoKey) ]_vars
    /\ [](\A r \in Reqs : Handled(r) =>
              (middleware = "returned" /\ PUBLIC_KEY \in KeyContents))

\* create_jwt_middleware ended in sys.exit because the key file is missing.
C10_Witness ==
    /\ middleware = "SystemExit"
    /\ auth_config.public_key_path = "pub.key"
    /\ keyfile = "missing"

\* ---- the Verifier alone (SpecVerifier)

C6_NoExceptionEscapes ==
    vout.called =>
        /\ ~vout.raised
        /\ vout.exc = NoExc
        /\ vtoken.form \in MalformedForms => ~vout.value
        /\ jwt_decode(vtoken, PUBLIC_KEY, {auth_config.jwt_algorithm}, vout.at).raised
               => ~vout.value

\* The Verifier answered false for a truncated token.
C6_Witness ==
    /\ vout.called
    /\ vtoken.form = "truncated"
    /\ ~vout.raised
    /\ ~vout.value

\* C7: a correctly signed, unexpired token whose payload has no username, or
\* has username null, is judged invalid.
C7_NoIdentityInvalid ==
    ( /\ vout.called
      /\ SignatureVerifies(vtoken)
      /\ AlgorithmMatches(vtoken)
      /\ NotExpired(vtoken, vout.at)
      /\ vtoken.claims.username \in {Absent, JsonNull} )
    => ~vout.value

\* C11: the Verifier checks a token with the configured algorithm only: a
\* token whose header names any other algorithm ("none" included) is judged
\* invalid, also when its signature is good for the algorithm it names.
C11_OnlyConfiguredAlgorithm ==
    (vout.called /\ vtoken.form = "jws" /\ vtoken.alg # auth_config.jwt_algorithm)
    => ~vout.value

\* An HS256 token signed with the very key the Verifier holds, with good
\* claims, was judged invalid by a Verifier configured for RS256.
C11_Witness ==
    /\ vout.called
    /\ auth_config.jwt_algorithm = "RS256"
    /\ vtoken.alg = "HS256"
    /\ vtoken.signer = PUBLIC_KEY
    /\ PUBLIC_KEY \notin PemKeys
    /\ vtoken.claims = [NoClaims EXCEPT !.username = "alice"]
    /\ ~vout.value

\* ------------------------------------------------------------ the Verifier, twice
\* One middleware instance verifies the same token twice; between the two
\* calls time passes and the instance handles a request (which verifies the
\* request's own token).
TwiceConfigs ==
    { c \in { AuthenticationConfig("True", "pub.key", a) : a \in {"RS256", "HS256"} } :
          c.status = "ok" }

\* Tokens some Verifier of the model can judge valid at some time.
TwiceTokens ==
    { t \in JwsTokens : /\ t.alg # "none"
                        /\ t.signer # "bad"
                        /\ t.claims.username = "alice"
                        /\ t.claims.aud = Absent }

InitTwice ==
    /\ auth_config \in TwiceConfigs
    /\ keyfile \in {"PEM1", "secret"}
    /\ PUBLIC_KEY = keyfile
    /\ middleware = "returned"
    /\ bearer_status = 403
    /\ now = 0
    /\ req = [r \in Reqs |-> IdleReq]
    /\ vtoken \in TwiceTokens
    /\ vout = NotCalled

\* self._is_jwt_access_token_valid(vtoken), a second time.
VerifierCallAgain ==
    /\ vout.called
    /\ ~vout.again.called
    /\ LET v == is_jwt_access_token_valid(vtoken)
       IN  vout' = [vout EXCEPT !.again = [called |-> TRUE, value |-> v.value,
                                           at |-> now]]
    /\ UNCHANGED <<auth_config, keyfile, PUBLIC_KEY, middleware, bearer_status, now,
                   req, vtoken>>

NextTwice ==
    \/ VerifierCall
    \/ VerifierCallAgain
    \/ Tick
    \/ Dispatch(1)
    \/ CallNext(1)

SpecTwice == InitTwice /\ [][NextTwice]_vars

\* C12, as amended: a token the Verifier judged valid is judged valid again
\* by the same Verifier, whatever requests it handled in between, unless the
\* token's exp has passed by the second call.
C12_SameVerdictUntilExpiry ==
    (vout.called /\ vout.value /\ vout.again.called
                 /\ NotExpired(vtoken, vout.again.at))
    => vout.again.value

\* C12 as stated: the second verdict on a valid token is the first one.
C12_AsStated ==
    (vout.called /\ vout.value /\ vout.again.called)
    => vout.again.value = vout.value

\* A valid token was verified twice with a request verified in between, and
\* judged valid both times.
C12_Witness ==
    /\ vout.called
    /\ vout.value
    /\ vout.again.called
    /\ vout.again.value
    /\ \E r \in Reqs : req[r].pc = "done" /\ Count(req[r].trace, "verify") = 1

\* The orders in which one request can take the steps of dispatch.
StepOrders ==
    { <<"path_check", "call_next">>,
      <<"path_check", "security">>,
      <<"path_check", "security", "verify">>,
      <<"path_check", "security", "verify", "call_next">> }

\* C13: within one request the path is tested first, the credential is
\* extracted only for a non-exempt path, the Verifier runs only after a
\* successful extraction, every step runs at most once, and a false verdict
\* ends the request: nothing of it changes afterwards.
C13_FixedStepOrder ==
    /\ [](\A r \in Reqs :
            Handled(r) =>
                /\ req[r].trace \in StepOrders
                /\ req[r].path \in ExemptPaths
                       => req[r].trace = <<"path_check", "call_next">>
                /\ Count(req[r].trace, "verify") = 1
                       => /\ ~(req[r].path \in ExemptPaths)
                          /\ BearerCredential(req[r].header)
                          /\ req[r].credentials = req[r].header.param
                /\ ~BearerCredential(req[r].header)
                       => Count(req[r].trace, "verify") = 0
                /\ req[r].verdict = "False"
                       => /\ req[r].pc = "done"
                          /\ req[r].trace = <<"path_check", "security", "verify">>)
    /\ [][\A r \in Reqs : req[r].verdict = "False" => req'[r] = req[r]]_vars

\* A request was rejected by the Verifier after the path test and the
\* extraction.
C13_Witness ==
    \E r \in Reqs :
        /\ req[r].verdict = "False"
        /\ req[r].trace = <<"path_check", "security", "verify">>
        /\ req[r].pc = "done"

\* ------------------------------------------------------------ concurrent requests
\* One middleware instance, already built, handles NumConc requests at once:
\* a request suspended in `await call_next(request)` lets the event loop run
\* dispatch for the others, in any order, while time passes.
ConcReqs == 1..NumConc

ConcConfigs ==
    { c \in { AuthenticationConfig(e, "pub.key", a) :
                  e \in EnabledInputs, a \in AlgInputs } : c.status = "ok" }

ConcPaths == {"/docs", "/data"}

ConcHeaders ==
    { NoHeader,
      [present |-> TRUE, scheme |-> "Basic",
       param |-> [form |-> "jws", alg |-> "RS256", signer |-> "PEM1",
                  claims |-> GoodClaims]],
      [present |-> TRUE, scheme |-> "Bearer",
       param |-> [form |-> "jws", alg |-> "RS256", signer |-> "PEM1",
                  claims |-> GoodClaims]],
      [present |-> TRUE, scheme |-> "Bearer",
       param |-> [form |-> "jws", alg |-> "RS256", signer |-> "PEM2",
                  claims |-> GoodClaims]],
      [present |-> TRUE, scheme |-> "Bearer",
       param |-> [form |-> "jws", alg |-> "RS256", signer |-> "PEM1",
                  claims |-> NoClaims]] }

InitConc ==
    /\ auth_config \in ConcConfigs
    /\ keyfile \in {"PEM1", "secret"}
    /\ PUBLIC_KEY = keyfile
    /\ middleware = "returned"
    /\ bearer_status \in {401, 403}
    /\ now = 0
    /\ req = [r \in ConcReqs |-> IdleReq]
    /\ vtoken = EmptyToken
    /\ vout = NotCalled

\* The server calls dispatch for one more request while others are in flight.
ConcDispatch(r) ==
    /\ req[r].pc = "idle"
    /\ \A q \in ConcReqs : q < r => req[q].pc # "idle"
    /\ \E p \in ConcPaths, h \in ConcHeaders :
           req' = [req EXCEPT ![r] = dispatch([@ EXCEPT !.path = p, !.header = h])]
    /\ UNCHANGED <<auth_config, keyfile, PUBLIC_KEY, middleware, bearer_status, now,
                   vtoken, vout>>

NextConc ==
    \/ \E r \in ConcReqs : ConcDispatch(r)
    \/ \E r \in ConcReqs : CallNext(r)
    \/ Tick

SpecConc == InitConc /\ [][NextConc]_vars

\* What the gate decides for a request handled on its own, with the token
\* verified at time t: the outcome, the verdict, and the rejection returned.
TokenAccepted(tok, t) ==
    /\ SignatureVerifies(tok)
    /\ AlgorithmMatches(tok)
    /\ NotExpired(tok, t)
    /\ NotBeforeReached(tok, t)
    /\ NoAudience(tok)
    /\ IdentityPresent(tok)

DecisionAlone(path, header, t) ==
    IF path \in ExemptPaths
    THEN [outcome |-> "Allow", verdict |-> "none", rejection |-> NoResponse]
    ELSE IF ~BearerCredential(header)
    THEN [outcome |-> "Reject", verdict |-> "none",
          rejection |-> [status_code |-> security(header).status_code,
                         detail |-> security(header).detail,
                         by |-> "JSONResponse"]]
    ELSE IF TokenAccepted(header.param, t)
    THEN [outcome |-> "Allow", verdict |-> "True", rejection |-> NoResponse]
    ELSE [outcome |-> "Reject", verdict |-> "False", rejection |-> Forbidden]

\* C14: whatever requests are in flight at the same time and however their
\* steps interleave, each request is decided as it would be on its own: its
\* outcome, verdict and rejection depend on its own path and header only, the
\* handler gets its own request, and it is returned its own handler's answer.
C14_ConcurrentAsAlone ==
    \A r \in ConcReqs :
        Handled(r) =>
            LET d == DecisionAlone(req[r].path, req[r].header, req[r].at)
            IN  /\ req[r].outcome = d.outcome
                /\ req[r].verdict = d.verdict
                /\ d.outcome = "Reject" => (req[r].pc = "done"
                                            /\ req[r].response = d.rejection)
                /\ d.outcome = "Allow" =>
                       /\ req[r].forwarded = [path |-> req[r].path,
                                              header |-> req[r].header]
                       /\ req[r].pc = "done" => req[r].response = req[r].handler

\* A request was rejected by the Verifier while an earlier request, verified
\* and forwarded, was still waiting for its handler.
C14_Witness ==
    \E r1, r2 \in ConcReqs :
        /\ r1 < r2
        /\ req[r1].verdict = "True"
        /\ req[r1].pc = "call_next"
        /\ req[r2].verdict = "False"
        /\ req[r2].pc = "done"

\* ------------------------------------------------------------ changes after construction
\* The service of Spec, in which, once the middleware class is built, the key
\* file can be replaced on disk and attributes of the AuthenticationConfig
\* object can be assigned (the model class is not frozen and does not validate
\* assignments).
ChangeKeyFile ==
    /\ middleware = "returned"
    /\ \E k \in KeyFileStates : k # keyfile /\ keyfile' = k
    /\ UNCHANGED <<auth_config, PUBLIC_KEY, middleware, bearer_status, now, req,
                   vtoken, vout>>

MutateConfig ==
    /\ middleware = "returned"
    /\ \E a \in {None, "", "RS256", "HS256"} :
           /\ a # auth_config.jwt_algorithm
           /\ auth_config' = [auth_config EXCEPT !.jwt_algorithm = a]
    /\ UNCHANGED <<keyfile, PUBLIC_KEY, middleware, bearer_status, now, req,
                   vtoken, vout>>

NextMutable ==
    \/ Next
    \/ ChangeKeyFile
    \/ MutateConfig

SpecMutable == Init /\ [][NextMutable]_vars

\* C15: once create_jwt_middleware has returned, the key and the algorithm
\* the Verifier uses stay the ones in effect at construction, whatever
\* happens to the key file and to the AuthenticationConfig object: no step
\* changes them.
C15_KeyAndAlgorithmFixed ==
    [][ middleware = "returned"
        => /\ VerifierKey' = VerifierKey
           /\ VerifierAlgorithms' = VerifierAlgorithms ]_vars

\* C16: a request reaches call_next with no authentication step exactly when
\* its path is "/docs" or "/openapi.json"; any other path, "/docs/" and paths
\* below "/docs" included, has its credential extracted, and reaches
\* call_next only with a token the Verifier accepted.
C16_ExactPathExemption ==
    \A r \in Reqs :
        Handled(r) =>
            /\ (Count(req[r].trace, "security") = 0
                    /\ Count(req[r].trace, "call_next") = 1)
               <=> req[r].path \in {"/docs", "/openapi.json"}
            /\ req[r].path \notin {"/docs", "/openapi.json"} =>
                   /\ req[r].trace[2] = "security"
                   /\ BearerCredential(req[r].header)
                          => Count(req[r].trace, "verify") = 1
                   /\ Count(req[r].trace, "call_next") = 1
                          => /\ req[r].verdict = "True"
                             /\ TokenAccepted(req[r].credentials, req[r].at)

\* Requests to "/docs/" and to a path below "/docs" were rejected for want of
\* a credential.
C16_Witness ==
    \E r \in Reqs :
        /\ req[r].path = "/docs/oauth2-redirect"
        /\ ~req[r].header.present
        /\ req[r].outcome = "Reject"
        /\ req[r].trace = <<"path_check", "security">>

\* C17: the gate does not look at auth_config.enabled: a request to a
\* non-exempt path is decided from its header, the key and the algorithm
\* alone, so also a gate built from a configuration with enabled = false
\* extracts the credential and rejects the request unless its token verifies.
C17_EnabledNotConsulted ==
    \A r \in Reqs :
        (Handled(r) /\ ~(req[r].path \in ExemptPaths)) =>
            LET d == DecisionAlone(req[r].path, req[r].header, req[r].at)
            IN  /\ Count(req[r].trace, "security") = 1
                /\ req[r].outcome = d.outcome
                /\ req[r].verdict = d.verdict
                /\ d.outcome = "Reject" => req[r].response = d.rejection
                /\ (~auth_config.enabled
                        /\ ~(BearerCredential(req[r].header)
                             /\ TokenAccepted(req[r].header.param, req[r].at)))
                   => req[r].outcome = "Reject"

\* A gate built with enabled = false rejected a request for its invalid token.
C17_Witness ==
    /\ ~auth_config.enabled
    /\ middleware = "returned"
    /\ \E r \in Reqs :
           /\ req[r].path = "/data"
           /\ req[r].verdict = "False"
           /\ req[r].response = Forbidden

====
